---- MODULE Spec2Model ----
(***************************************************************************)
(* Power state machine of the firmware (src/src/PowerFSM.cpp), the layered *)
(* power-profile resolver (PowerProfileManager.cpp, src/unnamed/part_003)  *)
(* and the coordinator that rebuilds the machine when the profile changes. *)
(*                                                                         *)
(* Three execution contexts are modelled:                                  *)
(*   loop  - the cooperative main loop: PowerFSM_setup, run_machine ticks, *)
(*           trigger() calls and PowerFSM_processRecreation;               *)
(*   poll  - the context that calls PowerProfileManager::init /            *)
(*           updateActiveProfile and PowerFSM_scheduleRecreation;          *)
(*   ext   - an event producer outside the loop that calls                 *)
(*           powerFSM.trigger() (only in SpecExt).                         *)
(***************************************************************************)
EXTENDS Integers, Sequences, FiniteSets, TLC

(***************************************************************************)
(* Bounds of the model (configuration values the user can set).            *)
(***************************************************************************)
ScreenOnSecs == 6          \* effective config.display.screen_on_secs
WaitBluetoothSecs == 5     \* effective config.power.wait_bluetooth_secs
MinWakeSecs == 2           \* effective config.power.min_wake_secs
LsSecs == 60               \* config.power.ls_secs
StepLimit == 1             \* time advances second by second up to here

(***************************************************************************)
(* Program constants.                                                      *)
(***************************************************************************)
SLEEP_TIME == 30
BootTimeoutSecs == 3

MAX_SDS == 0
MAX_LS == 1
MAX_NO_BLUETOOTH == 2
MAX_DARK == 3
MAX_ON == 4

States == {"BOOT", "SDS", "LOW_BATT_SDS", "LS", "NB", "DARK", "SERIAL", "ON", "POWER", "SHUTDOWN"}

Events == {"WAKE_TIMER", "PACKET_FOR_PHONE", "PRESS", "LOW_BATTERY", "SHUTDOWN", "INPUT",
           "BLUETOOTH_PAIR", "SERIAL_CONNECTED", "SERIAL_DISCONNECTED", "POWER_CONNECTED",
           "POWER_DISCONNECTED", "CONTACT_FROM_PHONE", "RECEIVED_MSG", "NODEDB_UPDATED"}

Roles == {"CLIENT", "CLIENT_MUTE", "ROUTER", "TRACKER", "SENSOR", "TAK_TRACKER"}

ForceProfiles == {"PROFILE_AUTO", "PROFILE_ALWAYS_PLUGGED", "PROFILE_ALWAYS_BATTERY"}

(* The builds explored: ARCH_ESP32 selects lsIdle and the light-sleep      *)
(* rules; HAS_FREE_RTOS selects the binary-semaphore Lock (every ESP32     *)
(* build has FreeRTOS), without it Lock is a no-op; has_wifi stands for    *)
(* HAS_WIFI || !defined(MESHTASTIC_EXCLUDE_WIFI); eink for USE_EINK.       *)
Esp32Build == [esp32 |-> TRUE, rtos |-> TRUE, has_wifi |-> TRUE, eink |-> FALSE]

Builds == {Esp32Build,
           [esp32 |-> FALSE, rtos |-> FALSE, has_wifi |-> FALSE, eink |-> FALSE]}

(* Builds, an ESP32 build without WiFi and an e-ink build *)
AllBuilds ==
  Builds \cup {[esp32 |-> TRUE, rtos |-> TRUE, has_wifi |-> FALSE, eink |-> FALSE],
               [esp32 |-> TRUE, rtos |-> TRUE, has_wifi |-> TRUE, eink |-> TRUE]}

(***************************************************************************)
(* The static profiles.                                                    *)
(***************************************************************************)
systemDefaultPluggedProfile ==
  [allow_deep_sleep |-> FALSE, allow_light_sleep |-> FALSE, bluetooth_enabled |-> TRUE,
   wifi_enabled |-> TRUE, screen_stays_responsive |-> TRUE, gps_enabled |-> TRUE,
   screen_timeout_secs |-> 0, bluetooth_timeout_secs |-> 0, min_wake_secs |-> 0,
   max_power_state |-> MAX_ON]

systemDefaultBatteryProfile ==
  [allow_deep_sleep |-> FALSE, allow_light_sleep |-> FALSE, bluetooth_enabled |-> FALSE,
   wifi_enabled |-> FALSE, screen_stays_responsive |-> FALSE, gps_enabled |-> TRUE,
   screen_timeout_secs |-> 30, bluetooth_timeout_secs |-> 30, min_wake_secs |-> 5,
   max_power_state |-> MAX_NO_BLUETOOTH]

legacyPowerSavingProfile ==
  [allow_deep_sleep |-> TRUE, allow_light_sleep |-> TRUE, bluetooth_enabled |-> FALSE,
   wifi_enabled |-> FALSE, screen_stays_responsive |-> TRUE, gps_enabled |-> TRUE,
   screen_timeout_secs |-> 0, bluetooth_timeout_secs |-> 0, min_wake_secs |-> 0,
   max_power_state |-> MAX_SDS]

legacyNormalProfile ==
  [allow_deep_sleep |-> FALSE, allow_light_sleep |-> FALSE, bluetooth_enabled |-> TRUE,
   wifi_enabled |-> TRUE, screen_stays_responsive |-> TRUE, gps_enabled |-> TRUE,
   screen_timeout_secs |-> 0, bluetooth_timeout_secs |-> 0, min_wake_secs |-> 0,
   max_power_state |-> MAX_DARK]

(* static computedProfile: zero-initialised before the first computation   *)
ZeroProfile ==
  [allow_deep_sleep |-> FALSE, allow_light_sleep |-> FALSE, bluetooth_enabled |-> FALSE,
   wifi_enabled |-> FALSE, screen_stays_responsive |-> FALSE, gps_enabled |-> FALSE,
   screen_timeout_secs |-> 0, bluetooth_timeout_secs |-> 0, min_wake_secs |-> 0,
   max_power_state |-> MAX_SDS]

(* config.power.plugged_in_profile / battery_profile: the user's overrides *)
plugged_in_profile ==
  [allow_deep_sleep |-> FALSE, allow_light_sleep |-> TRUE, bluetooth_enabled |-> FALSE,
   wifi_enabled |-> FALSE, screen_stays_responsive |-> FALSE, gps_enabled |-> FALSE,
   screen_timeout_secs |-> 4, bluetooth_timeout_secs |-> 4, min_wake_secs |-> 0,
   max_power_state |-> MAX_LS]

battery_profile ==
  [allow_deep_sleep |-> TRUE, allow_light_sleep |-> TRUE, bluetooth_enabled |-> TRUE,
   wifi_enabled |-> FALSE, screen_stays_responsive |-> TRUE, gps_enabled |-> FALSE,
   screen_timeout_secs |-> 0, bluetooth_timeout_secs |-> 4, min_wake_secs |-> 4,
   max_power_state |-> MAX_SDS]

VARIABLES
  build,                \* the build flags of this firmware image
  hasUSB,               \* powerStatus->getHasUSB()
  config,               \* role, is_power_saving, use_granular..., has_*_profile
  currentProfile,       \* PowerProfileManager::currentProfile (which object)
  computedProfile,      \* the contents of the static computedProfile
  granularEnabled,      \* PowerProfileManager::granularEnabled
  lastUSBStatus,        \* PowerProfileManager::lastUSBStatus
  pcU,                  \* position of the poll context
  uLocal,               \* locals of the poll context (hasUSB, newProfile)
  powerFSM,             \* the engine: current state, m_initialized, table, timers
  dev,                  \* what the state hooks did to the device
  secsSlept,            \* static uint32_t secsSlept
  powerFSMLock,         \* who holds the lock
  preservedState,       \* static State* preservedState
  fsmRecreationPending,
  fsmInitialSetupComplete,
  pcL,                  \* position of the loop context
  caller,               \* who called PowerFSM_create
  sleeping,             \* the loop context is inside doLightSleep
  pcE,                  \* trigger() in progress in the ext context
  ble,                  \* NimbleBluetooth: advertising, stack set up, client
  lastTransition        \* the transition the last step made, if it made one

vars == <<build, hasUSB, config, currentProfile, computedProfile, granularEnabled,
          lastUSBStatus, pcU, uLocal, powerFSM, dev, secsSlept, powerFSMLock,
          preservedState, fsmRecreationPending, fsmInitialSetupComplete, pcL, caller,
          sleeping, pcE, ble, lastTransition>>

pmVars == <<currentProfile, computedProfile, granularEnabled, lastUSBStatus, pcU, uLocal>>
fsmVars == <<powerFSM, dev, secsSlept>>
coordVars == <<powerFSMLock, preservedState, fsmRecreationPending, fsmInitialSetupComplete,
               pcL, caller, sleeping>>
envVars == <<build, hasUSB, config>>


(***************************************************************************)
(* PowerProfileManager: resolution of the effective profile.               *)
(***************************************************************************)
(* getLegacyProfile() deciding by the power-saving flag alone *)
getLegacyProfile_flagOnly(cfg) ==
  IF cfg.is_power_saving
    THEN "legacyPowerSavingProfile"
    ELSE "legacyNormalProfile"

getLegacyProfile(cfg) ==
  IF cfg.is_power_saving \/ cfg.role = "ROUTER"
    THEN "legacyPowerSavingProfile"
    ELSE "legacyNormalProfile"

(* Layer 1 of computeLayeredProfile: the base profile for the power source *)
baseProfile(cfg, usb) ==
  CASE cfg.force_profile = "PROFILE_ALWAYS_PLUGGED" -> systemDefaultPluggedProfile
    [] cfg.force_profile = "PROFILE_ALWAYS_BATTERY" -> systemDefaultBatteryProfile
    [] OTHER -> IF usb THEN systemDefaultPluggedProfile ELSE systemDefaultBatteryProfile

(* applyRoleModifiers() with the ROUTER case only *)
applyRoleModifiers_routerOnly(profile, role) ==
  CASE role = "ROUTER" ->
         [profile EXCEPT !.allow_deep_sleep = FALSE, !.allow_light_sleep = FALSE,
                         !.min_wake_secs = 1, !.max_power_state = MAX_DARK]
    [] OTHER -> profile

applyRoleModifiers(profile, role) ==
  CASE role = "ROUTER" ->
         [profile EXCEPT !.allow_deep_sleep = FALSE, !.allow_light_sleep = FALSE,
                         !.min_wake_secs = 1, !.max_power_state = MAX_DARK]
    [] role = "TRACKER" ->
         [profile EXCEPT !.gps_enabled = TRUE, !.screen_timeout_secs = 10]
    [] role = "SENSOR" ->
         [profile EXCEPT !.bluetooth_enabled = FALSE, !.screen_stays_responsive = FALSE,
                         !.screen_timeout_secs = 5]
    [] role = "CLIENT_MUTE" ->
         [profile EXCEPT !.screen_stays_responsive = FALSE]
    [] OTHER -> profile

(* applyUserOverrides() keeping the sleep permissions the roles decided *)
applyUserOverrides_merged(profile, usb, cfg) ==
  IF usb /\ cfg.has_plugged_in_profile
    THEN [plugged_in_profile EXCEPT !.allow_light_sleep = profile.allow_light_sleep]
  ELSE IF ~usb /\ cfg.has_battery_profile
    THEN [battery_profile EXCEPT !.allow_light_sleep = profile.allow_light_sleep]
  ELSE profile

applyUserOverrides(profile, usb, cfg) ==
  IF usb /\ cfg.has_plugged_in_profile THEN plugged_in_profile
  ELSE IF ~usb /\ cfg.has_battery_profile THEN battery_profile
  ELSE profile

(* the result of one complete computeLayeredProfile() run *)
computeLayeredProfile(cfg, usb) ==
  applyUserOverrides(applyRoleModifiers(baseProfile(cfg, usb), cfg.role), usb, cfg)

(* the contents of the object a profile pointer designates *)
ProfileAt(ptr, computed) ==
  CASE ptr = "legacyPowerSavingProfile" -> legacyPowerSavingProfile
    [] ptr = "legacyNormalProfile" -> legacyNormalProfile
    [] ptr = "computedProfile" -> computed
    [] ptr = "plugged_in_profile" -> plugged_in_profile
    [] ptr = "battery_profile" -> battery_profile
    [] OTHER -> legacyNormalProfile

(* getActiveProfile() returning currentProfile.load() as it is *)
getActiveProfile_noFallback == currentProfile

(* getActiveProfile(): never null, falls back to legacyNormalProfile *)
getActiveProfile ==
  IF currentProfile = "nullptr" THEN "legacyNormalProfile" ELSE currentProfile

ActiveProfile == ProfileAt(getActiveProfile, computedProfile)

getScreenTimeoutSecs(p) ==
  IF p.screen_timeout_secs > 0 THEN p.screen_timeout_secs ELSE ScreenOnSecs

getBluetoothTimeoutSecs(p) ==
  IF p.bluetooth_timeout_secs > 0 THEN p.bluetooth_timeout_secs ELSE WaitBluetoothSecs

getMinWakeSecs(p) ==
  IF p.min_wake_secs > 0 THEN p.min_wake_secs ELSE MinWakeSecs

(* isPowerStateAllowed() excluding the ceiling itself *)
isPowerStateAllowed_aboveCeiling(p, state) == state > p.max_power_state

isPowerStateAllowed(p, state) == state >= p.max_power_state

(***************************************************************************)
(* NimbleBluetooth as constructed: not advertising, the stack not set up   *)
(* (setups counts the initialisations of stack and service), no client;    *)
(* op is the last call made to it and calls the radio calls that call      *)
(* issued.                                                                 *)
(***************************************************************************)
NimbleBluetooth ==
  [advertisingActive |-> FALSE, setups |-> 0, connected |-> FALSE,
   op |-> "none", calls |-> <<>>]

(* NimbleBluetooth::setup(): the stack and the service are initialised *)
setup(b) == [b EXCEPT !.setups = @ + 1, !.calls = Append(@, "setup")]

(* startAdvertising() issuing the radio call whatever advertisingActive is *)
startAdvertising_unguarded(b) ==
  [b EXCEPT !.advertisingActive = TRUE, !.calls = Append(@, "startAdvertising")]

(* NimbleBluetooth::startAdvertising(): nothing if already advertising *)
startAdvertising(b) ==
  IF b.advertisingActive THEN b
  ELSE [b EXCEPT !.advertisingActive = TRUE, !.calls = Append(@, "startAdvertising")]

(* NimbleBluetooth::stopAdvertising(): nothing if not advertising; the     *)
(* stack, the service and a connection stay                                *)
stopAdvertising(b) ==
  IF ~b.advertisingActive THEN b
  ELSE [b EXCEPT !.advertisingActive = FALSE, !.calls = Append(@, "stopAdvertising")]

(* setBluetoothEnable() setting the stack up on every enable (at most twice *)
(* are counted)                                                             *)
bluetoothEnable_setupEachTime(b, enable) ==
  IF enable
    THEN startAdvertising(IF b.setups < 2 THEN setup(b) ELSE b)
    ELSE stopAdvertising(b)

(* the body of setBluetoothEnable(enable): the first enable sets the stack *)
(* up, every enable starts advertising, a disable stops advertising        *)
bluetoothEnable(b, enable) ==
  IF enable
    THEN startAdvertising(IF b.setups = 0 THEN setup(b) ELSE b)
    ELSE stopAdvertising(b)

(***************************************************************************)
(* The transition table PowerFSM_create registers.  b holds what the build *)
(* read: boot (initialState == &stateBOOT), hasUSB, the active profile,    *)
(* the role and isWifiAvailable().                                         *)
(***************************************************************************)
NoTable == [valid |-> FALSE, boot |-> FALSE, hasUSB |-> FALSE, profile |-> ZeroProfile,
            role |-> "CLIENT", wifi |-> FALSE]

T(from, to, event, action) == [from |-> from, to |-> to, event |-> event, action |-> action]

TT(from, to, secs) == [from |-> from, to |-> to, secs |-> secs]

wakeTarget(b) == IF b.profile.bluetooth_enabled THEN "DARK" ELSE "NB"

shouldEnableLightSleep(b) ==
  /\ b.profile.allow_light_sleep
  /\ ~b.wifi
  /\ b.role \notin {"TRACKER", "TAK_TRACKER", "SENSOR"}

(* Wake timer and packet rules out of LS *)
wakeRules(b) ==
  <<T("LS", IF build.esp32 THEN wakeTarget(b) ELSE "DARK", "WAKE_TIMER", "none"),
    T("LS", wakeTarget(b), "PACKET_FOR_PHONE", "none")>>

(* the two registrations for (NB, PACKET_FOR_PHONE), later one first *)
nbPacketRules_swapped ==
  <<T("NB", "DARK", "PACKET_FOR_PHONE", "none"),
    T("NB", "NB", "PACKET_FOR_PHONE", "none")>>

(* the two registrations for (NB, PACKET_FOR_PHONE), in the code's order *)
nbPacketRules ==
  <<T("NB", "NB", "PACKET_FOR_PHONE", "none"),
    T("NB", "DARK", "PACKET_FOR_PHONE", "none")>>

(* the press rules with a DARK rule that ignores hasUSB *)
pressRules_darkToOn(b) ==
  <<T("LS", "ON", "PRESS", "none"),
    T("NB", "ON", "PRESS", "none"),
    T("DARK", "ON", "PRESS", "none"),
    T("POWER", "POWER", "PRESS", "screenPress"),
    T("ON", "ON", "PRESS", "screenPress"),
    T("SERIAL", "SERIAL", "PRESS", "screenPress")>>

(* Press event transitions *)
pressRules(b) ==
  <<T("LS", "ON", "PRESS", "none"),
    T("NB", "ON", "PRESS", "none"),
    T("DARK", IF b.hasUSB THEN "POWER" ELSE "ON", "PRESS", "none"),
    T("POWER", "POWER", "PRESS", "screenPress"),
    T("ON", "ON", "PRESS", "screenPress"),
    T("SERIAL", "SERIAL", "PRESS", "screenPress")>>

(* the critical battery rules with a rule for POWER as well *)
lowBatteryRules_withPower ==
  <<T("BOOT", "LOW_BATT_SDS", "LOW_BATTERY", "none"),
    T("LS", "LOW_BATT_SDS", "LOW_BATTERY", "none"),
    T("NB", "LOW_BATT_SDS", "LOW_BATTERY", "none"),
    T("DARK", "LOW_BATT_SDS", "LOW_BATTERY", "none"),
    T("ON", "LOW_BATT_SDS", "LOW_BATTERY", "none"),
    T("SERIAL", "LOW_BATT_SDS", "LOW_BATTERY", "none"),
    T("POWER", "LOW_BATT_SDS", "LOW_BATTERY", "none")>>

(* the low battery rules leading to stateSDS, the other state named "SDS" *)
lowBatteryRules_toSDS ==
  <<T("BOOT", "SDS", "LOW_BATTERY", "none"),
    T("LS", "SDS", "LOW_BATTERY", "none"),
    T("NB", "SDS", "LOW_BATTERY", "none"),
    T("DARK", "SDS", "LOW_BATTERY", "none"),
    T("ON", "SDS", "LOW_BATTERY", "none"),
    T("SERIAL", "SDS", "LOW_BATTERY", "none")>>

(* Critical battery transitions *)
lowBatteryRules ==
  <<T("BOOT", "LOW_BATT_SDS", "LOW_BATTERY", "none"),
    T("LS", "LOW_BATT_SDS", "LOW_BATTERY", "none"),
    T("NB", "LOW_BATT_SDS", "LOW_BATTERY", "none"),
    T("DARK", "LOW_BATT_SDS", "LOW_BATTERY", "none"),
    T("ON", "LOW_BATT_SDS", "LOW_BATTERY", "none"),
    T("SERIAL", "LOW_BATT_SDS", "LOW_BATTERY", "none")>>

(* the shutdown rules with a rule for POWER as well *)
shutdownRules_withPower ==
  <<T("BOOT", "SHUTDOWN", "SHUTDOWN", "none"),
    T("LS", "SHUTDOWN", "SHUTDOWN", "none"),
    T("NB", "SHUTDOWN", "SHUTDOWN", "none"),
    T("DARK", "SHUTDOWN", "SHUTDOWN", "none"),
    T("ON", "SHUTDOWN", "SHUTDOWN", "none"),
    T("SERIAL", "SHUTDOWN", "SHUTDOWN", "none"),
    T("POWER", "SHUTDOWN", "SHUTDOWN", "none")>>

(* Shutdown transitions *)
shutdownRules ==
  <<T("BOOT", "SHUTDOWN", "SHUTDOWN", "none"),
    T("LS", "SHUTDOWN", "SHUTDOWN", "none"),
    T("NB", "SHUTDOWN", "SHUTDOWN", "none"),
    T("DARK", "SHUTDOWN", "SHUTDOWN", "none"),
    T("ON", "SHUTDOWN", "SHUTDOWN", "none"),
    T("SERIAL", "SHUTDOWN", "SHUTDOWN", "none")>>

(* Input device and Bluetooth pairing transitions *)
inputRules ==
  <<T("LS", "ON", "INPUT", "none"),
    T("NB", "ON", "INPUT", "none"),
    T("DARK", "ON", "INPUT", "none"),
    T("ON", "ON", "INPUT", "none"),
    T("POWER", "POWER", "INPUT", "none"),
    T("DARK", "ON", "BLUETOOTH_PAIR", "none"),
    T("ON", "ON", "BLUETOOTH_PAIR", "none")>>

(* Serial API transitions *)
serialRules ==
  <<T("LS", "SERIAL", "SERIAL_CONNECTED", "none"),
    T("NB", "SERIAL", "SERIAL_CONNECTED", "none"),
    T("DARK", "SERIAL", "SERIAL_CONNECTED", "none"),
    T("ON", "SERIAL", "SERIAL_CONNECTED", "none"),
    T("POWER", "SERIAL", "SERIAL_CONNECTED", "none"),
    T("SERIAL", "ON", "SERIAL_DISCONNECTED", "none")>>

(* the power rules without the phone contact self-loop of DARK *)
powerRules_noContact ==
  <<T("LS", "POWER", "POWER_CONNECTED", "none"),
    T("NB", "POWER", "POWER_CONNECTED", "none"),
    T("DARK", "POWER", "POWER_CONNECTED", "none"),
    T("ON", "POWER", "POWER_CONNECTED", "none"),
    T("POWER", "ON", "POWER_DISCONNECTED", "none")>>

(* Power connect/disconnect and phone contact transitions *)
powerRules ==
  <<T("LS", "POWER", "POWER_CONNECTED", "none"),
    T("NB", "POWER", "POWER_CONNECTED", "none"),
    T("DARK", "POWER", "POWER_CONNECTED", "none"),
    T("ON", "POWER", "POWER_CONNECTED", "none"),
    T("POWER", "ON", "POWER_DISCONNECTED", "none"),
    T("DARK", "DARK", "CONTACT_FROM_PHONE", "none")>>

(* the message rules with the wake rules registered for every profile *)
messageRules_alwaysWake(b) ==
  <<T("LS", "ON", "RECEIVED_MSG", "none"),
    T("NB", "ON", "RECEIVED_MSG", "none"),
    T("DARK", "ON", "RECEIVED_MSG", "none"),
    T("NB", "ON", "NODEDB_UPDATED", "none"),
    T("DARK", "ON", "NODEDB_UPDATED", "none"),
    T("ON", "ON", "RECEIVED_MSG", "none"),
    T("ON", "ON", "NODEDB_UPDATED", "none")>>

(* Message and NodeDB update transitions based on screen responsiveness *)
messageRules(b) ==
  (IF b.profile.screen_stays_responsive
     THEN <<T("LS", "ON", "RECEIVED_MSG", "none"),
            T("NB", "ON", "RECEIVED_MSG", "none"),
            T("DARK", "ON", "RECEIVED_MSG", "none"),
            T("NB", "ON", "NODEDB_UPDATED", "none"),
            T("DARK", "ON", "NODEDB_UPDATED", "none")>>
     ELSE <<T("LS", "LS", "RECEIVED_MSG", "none"),
            T("NB", "NB", "RECEIVED_MSG", "none"),
            T("DARK", "DARK", "RECEIVED_MSG", "none"),
            T("NB", "NB", "NODEDB_UPDATED", "none"),
            T("DARK", "DARK", "NODEDB_UPDATED", "none")>>)
  \o <<T("ON", "ON", "RECEIVED_MSG", "none"),
       T("ON", "ON", "NODEDB_UPDATED", "none")>>

(* all add_transition calls, in the order PowerFSM_create makes them *)
Transitions(b) ==
  IF ~b.valid THEN <<>> ELSE
  wakeRules(b) \o nbPacketRules \o pressRules(b) \o lowBatteryRules \o shutdownRules
  \o inputRules \o serialRules \o powerRules \o messageRules(b)

(* Screen timeout transitions: under USE_EINK only for a timeout above 0 *)
screenTimeoutRules(b) ==
  IF build.eink => getScreenTimeoutSecs(b.profile) > 0
    THEN <<TT("ON", "DARK", getScreenTimeoutSecs(b.profile)),
           TT("POWER", "DARK", getScreenTimeoutSecs(b.profile))>>
    ELSE <<>>

(* Light sleep transitions based on profile: on ESP32 the block is compiled *)
(* only with WiFi support; elsewhere the DARK self-loop is registered       *)
lightSleepRules(b) ==
  IF build.esp32
    THEN IF build.has_wifi
           THEN IF shouldEnableLightSleep(b)
                  THEN <<TT("NB", "LS", getMinWakeSecs(b.profile)),
                         TT("DARK", "LS", getBluetoothTimeoutSecs(b.profile))>>
                  ELSE <<TT("DARK", "DARK", getScreenTimeoutSecs(b.profile))>>
           ELSE <<>>
    ELSE <<TT("DARK", "DARK", getScreenTimeoutSecs(b.profile))>>

(* the timed rules with a boot rule that ignores hasUSB *)
TimedTransitions_bootToOn(b) ==
  IF ~b.valid THEN <<>> ELSE
  (IF b.boot THEN <<TT("BOOT", "ON", BootTimeoutSecs)>> ELSE <<>>)
  \o screenTimeoutRules(b) \o lightSleepRules(b)

TimedTransitions(b) ==
  IF ~b.valid THEN <<>> ELSE
  (IF b.boot
     THEN <<TT("BOOT", IF b.hasUSB THEN "POWER" ELSE "ON", BootTimeoutSecs)>>
     ELSE <<>>)
  \o screenTimeoutRules(b) \o lightSleepRules(b)


(***************************************************************************)
(* The engine (Fsm).  A machine value m gathers the engine, the device     *)
(* effects of the hooks and secsSlept, so that hooks can call trigger().   *)
(***************************************************************************)
NoRule == T("none", "none", "none", "none")

Mach == [fsm |-> powerFSM, dev |-> dev, slept |-> secsSlept, last |-> NoRule]

SetMach(m) ==
  /\ powerFSM' = m.fsm
  /\ dev' = m.dev
  /\ secsSlept' = m.slept
  /\ lastTransition' = m.last

Running(m) == m.dev.power = "run"

(* of several rules registered for one (state, event) the later one is used *)
EffectiveIndex(idx) == CHOOSE i \in idx : \A j \in idx : j <= i

Lookup(b, s, e) ==
  LET ts == Transitions(b)
      idx == {i \in DOMAIN ts : ts[i].from = s /\ ts[i].event = e}
  IN IF idx = {} THEN NoRule ELSE ts[EffectiveIndex(idx)]

RECURSIVE trigger(_, _, _)

(* sdsEnter without the allowDeepSleep() gate *)
sdsEnter_ungated(m, ap) == [m EXCEPT !.dev.power = "deep_sleep"]

sdsEnter(m, ap) ==
  IF ~ap.allow_deep_sleep
    THEN trigger(m, "WAKE_TIMER", ap)
    ELSE [m EXCEPT !.dev.power = "deep_sleep"]

(* lowBattSDSEnter consulting allowDeepSleep() as sdsEnter does *)
lowBattSDSEnter_gated(m) ==
  IF ~ActiveProfile.allow_deep_sleep THEN m ELSE [m EXCEPT !.dev.power = "forced_deep_sleep"]

lowBattSDSEnter(m) == [m EXCEPT !.dev.power = "forced_deep_sleep"]

(* shutdownEnter without power->shutdown() *)
shutdownEnter_noPowerOff(m) == m

shutdownEnter(m) == [m EXCEPT !.dev.power = "off"]

lsEnter(m) == [m EXCEPT !.dev.screen = FALSE, !.slept = 0]

nbEnter(m, ap) ==
  IF build.esp32
    THEN [m EXCEPT !.dev.screen = FALSE, !.dev.bt = ap.bluetooth_enabled]
    ELSE [m EXCEPT !.dev.screen = FALSE]

darkEnter(m, ap) == [m EXCEPT !.dev.bt = ap.bluetooth_enabled, !.dev.screen = FALSE]

(* serialEnter without setBluetoothEnable(false) *)
serialEnter_keepsBluetooth(m) == [m EXCEPT !.dev.screen = TRUE]

serialEnter(m) == [m EXCEPT !.dev.bt = FALSE, !.dev.screen = TRUE]

serialExit(m) == [m EXCEPT !.dev.bt = TRUE]

powerEnter(m) == [m EXCEPT !.dev.screen = TRUE, !.dev.bt = TRUE]

powerExit(m) == [m EXCEPT !.dev.screen = TRUE, !.dev.bt = TRUE]

(* onEnter without setBluetoothEnable(true) *)
onEnter_screenOnly(m) == [m EXCEPT !.dev.screen = TRUE]

onEnter(m) == [m EXCEPT !.dev.screen = TRUE, !.dev.bt = TRUE]

on_enter(s, m, ap) ==
  CASE s = "SHUTDOWN" -> shutdownEnter(m)
    [] s = "SDS" -> sdsEnter(m, ap)
    [] s = "LOW_BATT_SDS" -> lowBattSDSEnter(m)
    [] s = "LS" -> lsEnter(m)
    [] s = "NB" -> nbEnter(m, ap)
    [] s = "DARK" -> darkEnter(m, ap)
    [] s = "SERIAL" -> serialEnter(m)
    [] s = "ON" -> onEnter(m)
    [] s = "POWER" -> powerEnter(m)
    [] OTHER -> m

on_exit(s, m) ==
  CASE s = "SERIAL" -> serialExit(m)
    [] s = "POWER" -> powerExit(m)
    [] OTHER -> m

(* exit(from), switch the current state (which restarts the timed rules of  *)
(* the new state), enter(to), then the rule's action                        *)
make_transition(m, rule, ap) ==
  LET m1 == on_exit(rule.from, m)
      m2 == [m1 EXCEPT !.fsm.state = rule.to, !.fsm.elapsed = 0, !.last = rule]
  IN on_enter(rule.to, m2, ap)

trigger(m, e, ap) ==
  LET rule == Lookup(m.fsm.built, m.fsm.state, e)
  IN IF rule = NoRule \/ ~Running(m) THEN m ELSE make_transition(m, rule, ap)

onIdle(m, ap, usb) == IF usb THEN trigger(m, "POWER_CONNECTED", ap) ELSE m

(* powerIdle without the test of the power source *)
powerIdle_ignoresLoss(m, ap, usb) == m

powerIdle(m, ap, usb) == IF ~usb THEN trigger(m, "POWER_DISCONNECTED", ap) ELSE m

(* lsIdle not counting the sleep that ended by timer *)
lsIdleWake_noCount(m, c, pressed, ap) ==
  CASE c = "TIMER" -> m
    [] c = "UART" -> trigger(m, "SERIAL_CONNECTED", ap)
    [] OTHER -> IF pressed THEN trigger(m, "PRESS", ap) ELSE trigger(m, "WAKE_TIMER", ap)

(* lsIdle after doLightSleep returned with wake cause c *)
lsIdleWake(m, c, pressed, ap) ==
  CASE c = "TIMER" -> [m EXCEPT !.slept = m.slept + SLEEP_TIME]
    [] c = "UART" -> trigger(m, "SERIAL_CONNECTED", ap)
    [] OTHER -> IF pressed THEN trigger(m, "PRESS", ap) ELSE trigger(m, "WAKE_TIMER", ap)

(* lsIdle enters doLightSleep: ESP32 only, more sleeping to do *)
lsIdleWantsSleep(m) ==
  /\ m.fsm.state = "LS"
  /\ build.esp32
  /\ m.slept < LsSecs

(* the idle hooks that do not block *)
on_state(m, ap, usb) ==
  CASE m.fsm.state = "ON" -> onIdle(m, ap, usb)
    [] m.fsm.state = "POWER" -> powerIdle(m, ap, usb)
    [] m.fsm.state = "LS" /\ build.esp32 /\ m.slept >= LsSecs -> trigger(m, "WAKE_TIMER", ap)
    [] OTHER -> m

DueTimed(m) ==
  LET tts == TimedTransitions(m.fsm.built)
  IN {i \in DOMAIN tts : tts[i].from = m.fsm.state /\ m.fsm.elapsed >= tts[i].secs}

check_timed_transitions(m, ap) ==
  LET tts == TimedTransitions(m.fsm.built)
      due == DueTimed(m)
  IN IF due = {} \/ ~Running(m) THEN m
     ELSE LET i == CHOOSE k \in due : \A j \in due : k <= j
          IN make_transition(m, T(tts[i].from, tts[i].to, "TIMEOUT", "none"), ap)

(* run_machine: the first run enters the initial state, and the timed     *)
(* rules of that state start with it                                       *)
first_run(m, ap) ==
  IF m.fsm.initialized THEN m
  ELSE on_enter(m.fsm.state,
                [m EXCEPT !.fsm.initialized = TRUE, !.fsm.elapsed = 0], ap)


(***************************************************************************)
(* Initial state: the globals as constructed, before init() and setup().   *)
(***************************************************************************)
Configs ==
  [role : Roles, is_power_saving : BOOLEAN, use_granular : BOOLEAN,
   force_profile : ForceProfiles, has_plugged_in_profile : BOOLEAN,
   has_battery_profile : BOOLEAN]

(* the configurations the full system is explored from *)
MainConfigs ==
  {c \in Configs :
     /\ c.force_profile = "PROFILE_AUTO"
     /\ c.has_plugged_in_profile = c.has_battery_profile
     /\ ~c.is_power_saving
     /\ IF c.use_granular
          THEN c.role \in {"CLIENT", "SENSOR"}
          ELSE c.role = "CLIENT" /\ ~c.has_battery_profile}

InitWith(builds, configs) ==
  /\ build \in builds
  /\ hasUSB \in BOOLEAN
  /\ config \in configs
  /\ currentProfile = "nullptr"
  /\ computedProfile = ZeroProfile
  /\ granularEnabled = FALSE
  /\ lastUSBStatus = FALSE
  /\ pcU = "start"
  /\ uLocal = [hasUSB |-> FALSE, newProfile |-> "nullptr"]
  /\ powerFSM = [state |-> "BOOT", initialized |-> FALSE, built |-> NoTable, elapsed |-> 0]
  /\ dev = [screen |-> FALSE, bt |-> FALSE, power |-> "run"]
  /\ secsSlept = 0
  /\ powerFSMLock = "free"
  /\ preservedState = "nullptr"
  /\ fsmRecreationPending = FALSE
  /\ fsmInitialSetupComplete = FALSE
  /\ pcL = "boot"
  /\ caller = "none"
  /\ sleeping = FALSE
  /\ pcE = NoRule
  /\ ble = NimbleBluetooth
  /\ lastTransition = NoRule

Init == InitWith(Builds, MainConfigs)

Alive == dev.power = "run"

Quiet == lastTransition' = NoRule

(***************************************************************************)
(* concurrency::Lock: a binary semaphore under FreeRTOS (taking it again   *)
(* blocks, also for the holder), a no-op otherwise.                        *)
(***************************************************************************)
Lock_lock ==
  IF build.rtos
    THEN powerFSMLock = "free" /\ powerFSMLock' = "loop"
    ELSE powerFSMLock' = powerFSMLock

Lock_unlock ==
  IF build.rtos
    THEN powerFSMLock' = "free"
    ELSE powerFSMLock' = powerFSMLock

(***************************************************************************)
(* The coordinator, in the loop context.                                   *)
(***************************************************************************)
PowerFSM_setup ==
  /\ pcL = "boot" /\ Alive
  /\ pcL' = "create_lock"
  /\ caller' = "setup"
  /\ Quiet
  /\ UNCHANGED <<envVars, pmVars, fsmVars, powerFSMLock, preservedState,
                 fsmRecreationPending, fsmInitialSetupComplete, sleeping, pcE, ble>>

(* PowerFSM_create without its own LockGuard *)
PowerFSM_create_unlocked ==
  /\ pcL = "create_lock" /\ Alive
  /\ pcL' = "create_build"
  /\ Quiet
  /\ UNCHANGED <<envVars, pmVars, fsmVars, powerFSMLock, preservedState,
                 fsmRecreationPending, fsmInitialSetupComplete, caller, sleeping, pcE, ble>>

(* LockGuard guard(&powerFSMLock) at the head of PowerFSM_create *)
PowerFSM_create_lock ==
  /\ pcL = "create_lock" /\ Alive
  /\ Lock_lock
  /\ pcL' = "create_build"
  /\ Quiet
  /\ UNCHANGED <<envVars, pmVars, fsmVars, preservedState, fsmRecreationPending,
                 fsmInitialSetupComplete, caller, sleeping, pcE, ble>>

(* isWifiAvailable() is evaluated only on ESP32 and after allowLightSleep() *)
WifiReadings(ap) ==
  IF build.esp32 /\ build.has_wifi /\ ap.allow_light_sleep THEN BOOLEAN ELSE {FALSE}

(* PowerFSM_create giving the live engine a new table instead of          *)
(* constructing a new engine                                             *)
PowerFSM_create_build_keepsEngine ==
  /\ pcL = "create_build" /\ Alive
  /\ \E wifi \in WifiReadings(ActiveProfile) :
       LET initialState == IF preservedState # "nullptr" THEN preservedState ELSE "BOOT"
       IN powerFSM' = [powerFSM EXCEPT
                         !.state = initialState,
                         !.built = [valid |-> TRUE, boot |-> initialState = "BOOT",
                                    hasUSB |-> hasUSB, profile |-> ActiveProfile,
                                    role |-> config.role, wifi |-> wifi]]
  /\ preservedState' = "nullptr"
  /\ pcL' = "create_run"
  /\ Quiet
  /\ UNCHANGED <<envVars, pmVars, dev, secsSlept, powerFSMLock, fsmRecreationPending,
                 fsmInitialSetupComplete, caller, sleeping, pcE, ble>>

(* the body of PowerFSM_create up to run_machine: a new engine and table *)
PowerFSM_create_build ==
  /\ pcL = "create_build" /\ Alive
  /\ \E wifi \in WifiReadings(ActiveProfile) :
       LET initialState == IF preservedState # "nullptr" THEN preservedState ELSE "BOOT"
       IN powerFSM' = [state |-> initialState, initialized |-> FALSE,
                       built |-> [valid |-> TRUE, boot |-> initialState = "BOOT",
                                  hasUSB |-> hasUSB, profile |-> ActiveProfile,
                                  role |-> config.role, wifi |-> wifi],
                       elapsed |-> 0]
  /\ preservedState' = "nullptr"
  /\ pcL' = "create_run"
  /\ Quiet
  /\ UNCHANGED <<envVars, pmVars, dev, secsSlept, powerFSMLock, fsmRecreationPending,
                 fsmInitialSetupComplete, caller, sleeping, pcE, ble>>

(* powerFSM.run_machine(): enter on the first run, the idle hook, the timers *)
run_machine(nextPc) ==
  LET ap == ActiveProfile
      m1 == first_run(Mach, ap)
  IN IF lsIdleWantsSleep(m1) /\ Running(m1)
       THEN \E preflight \in BOOLEAN :
              IF preflight
                THEN SetMach(m1) /\ sleeping' = TRUE /\ pcL' = pcL
                ELSE /\ SetMach(check_timed_transitions(m1, ap))
                     /\ sleeping' = sleeping /\ pcL' = nextPc
       ELSE /\ SetMach(check_timed_transitions(on_state(m1, ap, hasUSB), ap))
            /\ sleeping' = sleeping /\ pcL' = nextPc

PowerFSM_create_run ==
  /\ pcL = "create_run" /\ Alive /\ ~sleeping
  /\ run_machine("create_return")
  /\ UNCHANGED <<envVars, pmVars, powerFSMLock, preservedState, fsmRecreationPending,
                 fsmInitialSetupComplete, caller, pcE, ble>>

(* doLightSleep returns inside lsIdle; the rest of run_machine follows *)
lsIdle_wake ==
  /\ sleeping /\ Alive
  /\ \E c \in {"TIMER", "UART", "OTHER"}, pressed \in BOOLEAN :
       SetMach(check_timed_transitions(lsIdleWake(Mach, c, pressed, ActiveProfile),
                                       ActiveProfile))
  /\ sleeping' = FALSE
  /\ pcL' = IF pcL = "create_run" THEN "create_return" ELSE pcL
  /\ UNCHANGED <<envVars, pmVars, powerFSMLock, preservedState, fsmRecreationPending,
                 fsmInitialSetupComplete, caller, pcE, ble>>

(* the guard of PowerFSM_create goes out of scope *)
PowerFSM_create_return ==
  /\ pcL = "create_return" /\ Alive
  /\ Lock_unlock
  /\ pcL' = IF caller = "setup" THEN "setup_return" ELSE "recreate_return"
  /\ caller' = "none"
  /\ Quiet
  /\ UNCHANGED <<envVars, pmVars, fsmVars, preservedState, fsmRecreationPending,
                 fsmInitialSetupComplete, sleeping, pcE, ble>>

PowerFSM_setup_return ==
  /\ pcL = "setup_return" /\ Alive
  /\ fsmInitialSetupComplete' = TRUE
  /\ pcL' = "idle"
  /\ Quiet
  /\ UNCHANGED <<envVars, pmVars, fsmVars, powerFSMLock, preservedState,
                 fsmRecreationPending, caller, sleeping, pcE, ble>>

(* if (fsmRecreationPending) ... *)
PowerFSM_processRecreation ==
  /\ pcL = "idle" /\ Alive /\ ~sleeping
  /\ pcL' = IF fsmRecreationPending THEN "process_clear" ELSE pcL
  /\ Quiet
  /\ UNCHANGED <<envVars, pmVars, fsmVars, powerFSMLock, preservedState,
                 fsmRecreationPending, fsmInitialSetupComplete, caller, sleeping, pcE, ble>>

(* ... fsmRecreationPending = false; PowerFSM_recreate(); *)
PowerFSM_processRecreation_clear ==
  /\ pcL = "process_clear" /\ Alive
  /\ fsmRecreationPending' = FALSE
  /\ pcL' = "recreate"
  /\ Quiet
  /\ UNCHANGED <<envVars, pmVars, fsmVars, powerFSMLock, preservedState,
                 fsmInitialSetupComplete, caller, sleeping, pcE, ble>>

(* PowerFSM_recreate: take the lock, save the current state, call create *)
PowerFSM_recreate ==
  /\ pcL = "recreate" /\ Alive
  /\ Lock_lock
  /\ preservedState' = powerFSM.state
  /\ caller' = "recreate"
  /\ pcL' = "create_lock"
  /\ Quiet
  /\ UNCHANGED <<envVars, pmVars, fsmVars, fsmRecreationPending,
                 fsmInitialSetupComplete, sleeping, pcE, ble>>

(* the guard of PowerFSM_recreate goes out of scope *)
PowerFSM_recreate_return ==
  /\ pcL = "recreate_return" /\ Alive
  /\ Lock_unlock
  /\ pcL' = "idle"
  /\ Quiet
  /\ UNCHANGED <<envVars, pmVars, fsmVars, preservedState, fsmRecreationPending,
                 fsmInitialSetupComplete, caller, sleeping, pcE, ble>>

(* the main loop's powerFSM.run_machine() *)
loop_run_machine ==
  /\ pcL = "idle" /\ Alive /\ ~sleeping
  /\ run_machine("idle")
  /\ UNCHANGED <<envVars, pmVars, powerFSMLock, preservedState, fsmRecreationPending,
                 fsmInitialSetupComplete, caller, pcE, ble>>

(* powerFSM.trigger(e) called in the loop context *)
loop_trigger(e) ==
  /\ pcL = "idle" /\ Alive /\ ~sleeping
  /\ SetMach(trigger(Mach, e, ActiveProfile))
  /\ UNCHANGED <<envVars, pmVars, coordVars, pcE, ble>>

(* PowerFSM_scheduleRecreation() without the fsmInitialSetupComplete test *)
PowerFSM_scheduleRecreation_unguarded ==
  fsmRecreationPending' = TRUE

(* PowerFSM_scheduleRecreation(): the new value of the pending flag *)
PowerFSM_scheduleRecreation ==
  fsmRecreationPending' = IF fsmInitialSetupComplete THEN TRUE ELSE fsmRecreationPending

(* PowerFSM_reconfigure() rewriting the live table in the caller's context *)
PowerFSM_reconfigure_inPlace ==
  /\ Alive
  /\ PowerFSM_scheduleRecreation
  /\ powerFSM' = IF powerFSM.built.valid
                   THEN [powerFSM EXCEPT !.built.hasUSB = hasUSB,
                                         !.built.profile = ActiveProfile]
                   ELSE powerFSM
  /\ Quiet
  /\ UNCHANGED <<envVars, pmVars, dev, secsSlept, powerFSMLock, preservedState,
                 fsmInitialSetupComplete, pcL, caller, sleeping, pcE, ble>>

(* PowerFSM_reconfigure(), called by a config-change handler *)
PowerFSM_reconfigure ==
  /\ Alive
  /\ PowerFSM_scheduleRecreation
  /\ Quiet
  /\ UNCHANGED <<envVars, pmVars, fsmVars, powerFSMLock, preservedState,
                 fsmInitialSetupComplete, pcL, caller, sleeping, pcE, ble>>

(***************************************************************************)
(* PowerProfileManager, one call at a time (the poll context).             *)
(***************************************************************************)
(* updateActiveProfile() as a whole; g is granularEnabled, usb0 the cached *)
(* USB status before the call                                              *)
(* the pointer selectActiveProfile() returns *)
newProfile(g) == IF g THEN "computedProfile" ELSE getLegacyProfile(config)

(* the value updateActiveProfile() returns *)
updateActiveProfile_return(g) == newProfile(g) # currentProfile

(* updateActiveProfile() publishing and signalling on every call *)
updateActiveProfile_always(g, usb0) ==
  /\ computedProfile' = IF g THEN computeLayeredProfile(config, hasUSB)
                             ELSE computedProfile
  /\ currentProfile' = newProfile(g)
  /\ lastUSBStatus' = hasUSB
  /\ PowerFSM_scheduleRecreation

updateActiveProfile(g, usb0) ==
  /\ computedProfile' = IF g THEN computeLayeredProfile(config, hasUSB)
                             ELSE computedProfile
  /\ IF updateActiveProfile_return(g)
       THEN /\ currentProfile' = newProfile(g)
            /\ lastUSBStatus' = hasUSB
            /\ PowerFSM_scheduleRecreation
       ELSE /\ currentProfile' = currentProfile
            /\ lastUSBStatus' = usb0
            /\ fsmRecreationPending' = fsmRecreationPending

PowerProfileManager_init ==
  /\ pcU = "start" /\ Alive
  /\ granularEnabled' = config.use_granular
  /\ updateActiveProfile(config.use_granular, hasUSB)
  /\ pcU' = "idle"
  /\ Quiet
  /\ UNCHANGED <<envVars, uLocal, fsmVars, powerFSMLock, preservedState,
                 fsmInitialSetupComplete, pcL, caller, sleeping, pcE, ble>>

PowerProfileManager_updateActiveProfile ==
  /\ pcU = "idle" /\ Alive
  /\ updateActiveProfile(granularEnabled, lastUSBStatus)
  /\ Quiet
  /\ UNCHANGED <<envVars, granularEnabled, pcU, uLocal, fsmVars, powerFSMLock,
                 preservedState, fsmInitialSetupComplete, pcL, caller, sleeping, pcE, ble>>

(* the profiles a caller of forceProfile() can designate *)
ForcedProfiles == {"nullptr", "plugged_in_profile", "battery_profile"}

(* forceProfile(profile): if (profile) currentProfile.store(profile) *)
PowerProfileManager_forceProfile(profile) ==
  /\ Alive
  /\ currentProfile' = IF profile # "nullptr" THEN profile ELSE currentProfile
  /\ Quiet
  /\ UNCHANGED <<envVars, computedProfile, granularEnabled, lastUSBStatus, pcU, uLocal,
                 fsmVars, coordVars, pcE, ble>>

(***************************************************************************)
(* The advertising control of NimbleBluetooth, called from any context.    *)
(***************************************************************************)
(* setBluetoothEnable(enable) *)
setBluetoothEnable(enable) ==
  /\ Alive
  /\ ble' = bluetoothEnable([ble EXCEPT !.op = IF enable THEN "enable" ELSE "disable",
                                        !.calls = <<>>], enable)
  /\ Quiet
  /\ UNCHANGED <<envVars, pmVars, fsmVars, coordVars, pcE>>

(* a client connects to the advertising device *)
onClientConnect ==
  /\ Alive
  /\ ble.advertisingActive /\ ~ble.connected
  /\ ble' = [ble EXCEPT !.connected = TRUE, !.op = "connect", !.calls = <<>>]
  /\ Quiet
  /\ UNCHANGED <<envVars, pmVars, fsmVars, coordVars, pcE>>

(* the disconnect callback restarting advertising whatever the profile is *)
onClientDisconnect_alwaysRestarts ==
  /\ Alive
  /\ ble.connected
  /\ ble' = startAdvertising([ble EXCEPT !.connected = FALSE, !.op = "disconnect",
                                         !.calls = <<>>])
  /\ Quiet
  /\ UNCHANGED <<envVars, pmVars, fsmVars, coordVars, pcE>>

(* the disconnect callback: advertising restarts only if the current power *)
(* profile allows Bluetooth                                                *)
onClientDisconnect ==
  /\ Alive
  /\ ble.connected
  /\ LET b == [ble EXCEPT !.connected = FALSE, !.op = "disconnect", !.calls = <<>>]
     IN ble' = IF ActiveProfile.bluetooth_enabled THEN startAdvertising(b) ELSE b
  /\ Quiet
  /\ UNCHANGED <<envVars, pmVars, fsmVars, coordVars, pcE>>

(***************************************************************************)
(* updateActiveProfile() statement by statement, as seen by a concurrent   *)
(* reader of the published profile (SpecPM).                               *)
(***************************************************************************)
(* selectActiveProfile(); in granular mode computeLayeredProfile reads     *)
(* hasUSB and copies the base profile into computedProfile                 *)
selectActiveProfile ==
  /\ pcU = "idle" /\ Alive
  /\ IF ~granularEnabled
       THEN /\ uLocal' = [hasUSB |-> FALSE, newProfile |-> getLegacyProfile(config)]
            /\ pcU' = "compare"
            /\ UNCHANGED computedProfile
       ELSE /\ uLocal' = [hasUSB |-> hasUSB, newProfile |-> "computedProfile"]
            /\ computedProfile' = baseProfile(config, hasUSB)
            /\ pcU' = "layer2"
  /\ Quiet
  /\ UNCHANGED <<envVars, currentProfile, granularEnabled, lastUSBStatus, fsmVars,
                 coordVars, pcE, ble>>

(* Layer 2: applyRoleModifiers(&computedProfile, config.device.role) *)
computeLayeredProfile_role ==
  /\ pcU = "layer2" /\ Alive
  /\ computedProfile' = applyRoleModifiers(computedProfile, config.role)
  /\ pcU' = "layer3"
  /\ Quiet
  /\ UNCHANGED <<envVars, currentProfile, granularEnabled, lastUSBStatus, uLocal,
                 fsmVars, coordVars, pcE, ble>>

(* Layer 3: applyUserOverrides(&computedProfile, hasUSB) *)
computeLayeredProfile_user ==
  /\ pcU = "layer3" /\ Alive
  /\ computedProfile' = applyUserOverrides(computedProfile, uLocal.hasUSB, config)
  /\ pcU' = "compare"
  /\ Quiet
  /\ UNCHANGED <<envVars, currentProfile, granularEnabled, lastUSBStatus, uLocal,
                 fsmVars, coordVars, pcE, ble>>

(* the rest of updateActiveProfile(): compare by identity, publish, signal *)
updateActiveProfile_publish ==
  /\ pcU = "compare" /\ Alive
  /\ IF uLocal.newProfile # currentProfile
       THEN /\ currentProfile' = uLocal.newProfile
            /\ lastUSBStatus' = hasUSB
            /\ PowerFSM_scheduleRecreation
       ELSE UNCHANGED <<currentProfile, lastUSBStatus, fsmRecreationPending>>
  /\ pcU' = "idle"
  /\ uLocal' = [hasUSB |-> FALSE, newProfile |-> "nullptr"]
  /\ Quiet
  /\ UNCHANGED <<envVars, computedProfile, granularEnabled, fsmVars, powerFSMLock,
                 preservedState, fsmInitialSetupComplete, pcL, caller, sleeping, pcE, ble>>

(* init() up to its call of updateActiveProfile() *)
PowerProfileManager_init_begin ==
  /\ pcU = "start" /\ Alive
  /\ granularEnabled' = config.use_granular
  /\ lastUSBStatus' = hasUSB
  /\ pcU' = "idle"
  /\ Quiet
  /\ UNCHANGED <<envVars, currentProfile, computedProfile, uLocal, fsmVars, coordVars, pcE, ble>>

(***************************************************************************)
(* The environment: the power source, the configuration, time.             *)
(***************************************************************************)
PowerChange ==
  /\ Alive
  /\ hasUSB' = ~hasUSB
  /\ Quiet
  /\ UNCHANGED <<build, config, pmVars, fsmVars, coordVars, pcE, ble>>

SetRole(r) ==
  /\ Alive
  /\ r # config.role
  /\ config' = [config EXCEPT !.role = r]
  /\ Quiet
  /\ UNCHANGED <<build, hasUSB, pmVars, fsmVars, coordVars, pcE, ble>>

(* config.power.is_power_saving is changed (it is read in legacy mode only) *)
SetPowerSaving ==
  /\ Alive
  /\ ~config.use_granular
  /\ config' = [config EXCEPT !.is_power_saving = ~config.is_power_saving]
  /\ Quiet
  /\ UNCHANGED <<build, hasUSB, pmVars, fsmVars, coordVars, pcE, ble>>

(* the deadline of the timed rule out of the current state, if any *)
Deadline(fsm) ==
  LET tts == TimedTransitions(fsm.built)
      ds == {tts[i].secs : i \in {j \in DOMAIN tts : tts[j].from = fsm.state}}
  IN IF ds = {} THEN 0 ELSE CHOOSE d \in ds : \A x \in ds : d <= x

(* time passes: one second at a time at first, then up to the second       *)
(* before the deadline, then to the deadline                               *)
AdvanceTime ==
  /\ Alive
  /\ powerFSM.initialized
  /\ powerFSM.elapsed < Deadline(powerFSM)
  /\ powerFSM' = [powerFSM EXCEPT !.elapsed =
                    IF powerFSM.elapsed < StepLimit \/ powerFSM.elapsed >= Deadline(powerFSM) - 1
                      THEN powerFSM.elapsed + 1
                      ELSE Deadline(powerFSM) - 1]
  /\ Quiet
  /\ UNCHANGED <<envVars, pmVars, dev, secsSlept, coordVars, pcE, ble>>

(***************************************************************************)
(* An event producer outside the loop (a BLE callback, an input driver)    *)
(* calls powerFSM.trigger(e).  No caller of trigger() or run_machine()     *)
(* takes powerFSMLock: the lock is static in PowerFSM.cpp and only         *)
(* PowerFSM_create and PowerFSM_recreate guard themselves with it.         *)
(***************************************************************************)
ExtEvents == {"BLUETOOTH_PAIR", "CONTACT_FROM_PHONE", "INPUT"}

(* trigger(e) finds its rule ... *)
ext_trigger_begin(e) ==
  /\ Alive
  /\ pcE = NoRule
  /\ pcE' = Lookup(powerFSM.built, powerFSM.state, e)
  /\ Quiet
  /\ UNCHANGED <<envVars, pmVars, fsmVars, coordVars, ble>>

(* ... and makes the transition *)
ext_trigger_end ==
  /\ Alive
  /\ pcE # NoRule
  /\ SetMach(make_transition(Mach, pcE, ActiveProfile))
  /\ pcE' = NoRule
  /\ UNCHANGED <<envVars, pmVars, coordVars, ble>>

(***************************************************************************)
(* Spec: the loop context, the poll context (one call at a time) and the   *)
(* environment.                                                            *)
(***************************************************************************)
CoordNext ==
  \/ PowerFSM_setup
  \/ PowerFSM_create_lock
  \/ PowerFSM_create_build
  \/ PowerFSM_create_run
  \/ PowerFSM_create_return
  \/ PowerFSM_setup_return
  \/ PowerFSM_processRecreation
  \/ PowerFSM_processRecreation_clear
  \/ PowerFSM_recreate
  \/ PowerFSM_recreate_return

LoopNext ==
  \/ CoordNext
  \/ lsIdle_wake
  \/ loop_run_machine
  \/ \E e \in Events : loop_trigger(e)

PollNext ==
  \/ PowerProfileManager_init
  \/ PowerProfileManager_updateActiveProfile
  \/ PowerFSM_reconfigure

EnvNext ==
  \/ PowerChange
  \/ SetPowerSaving
  \/ AdvanceTime

Next == LoopNext \/ PollNext \/ EnvNext

Spec == Init /\ [][Next]_vars

(***************************************************************************)
(* SpecExt: the coordinator with an event producer outside the loop.       *)
(***************************************************************************)
ExtConfigs == {c \in MainConfigs : ~c.use_granular}

InitExt == InitWith(Builds, ExtConfigs)

NextExt ==
  \/ CoordNext
  \/ loop_run_machine
  \/ PowerProfileManager_init
  \/ PowerFSM_reconfigure
  \/ AdvanceTime
  \/ \E e \in ExtEvents : ext_trigger_begin(e)
  \/ ext_trigger_end

SpecExt == InitExt /\ [][NextExt]_vars

(***************************************************************************)
(* SpecPM: the profile manager statement by statement, for every           *)
(* configuration, with the first build of the machine.                     *)
(***************************************************************************)
(* the roles the configuration is switched to while the manager runs *)
PMRoles == {"CLIENT", "ROUTER"}

InitPM == InitWith({Esp32Build}, Configs)

NextPM ==
  \/ PowerFSM_setup
  \/ PowerFSM_create_lock
  \/ PowerFSM_create_build
  \/ PowerFSM_create_run
  \/ PowerFSM_create_return
  \/ PowerFSM_setup_return
  \/ PowerProfileManager_init_begin
  \/ selectActiveProfile
  \/ computeLayeredProfile_role
  \/ computeLayeredProfile_user
  \/ updateActiveProfile_publish
  \/ PowerChange
  \/ \E r \in PMRoles : SetRole(r)

SpecPM == InitPM /\ [][NextPM]_vars

(***************************************************************************)
(* SpecResolve: the profile manager one call at a time, for every          *)
(* configuration, role change and power source, before the machine is set  *)
(* up.                                                                     *)
(***************************************************************************)
InitResolve == InitWith({Esp32Build}, Configs)

NextResolve ==
  \/ PowerProfileManager_init
  \/ PowerProfileManager_updateActiveProfile
  \/ \E profile \in ForcedProfiles : PowerProfileManager_forceProfile(profile)
  \/ PowerChange
  \/ \E r \in Roles : SetRole(r)
  \/ SetPowerSaving

SpecResolve == InitResolve /\ [][NextResolve]_vars


(* run_machine(), for every initial state the engine can be constructed    *)
(* with and a table built from every resolved profile; then the loop       *)
(* context ticks and dispatches every event, the power source changes and  *)
(* the profile is resolved again (the table stays as built).               *)
(***************************************************************************)
TableConfigs ==
  {c \in Configs :
     /\ c.force_profile = "PROFILE_AUTO"
     /\ c.has_plugged_in_profile = c.has_battery_profile
     /\ c.role \in {"CLIENT", "ROUTER", "SENSOR"}
     /\ IF c.use_granular THEN ~c.is_power_saving ELSE ~c.has_battery_profile}

InitTableWith(builds, configs) ==
  /\ build \in builds
  /\ hasUSB \in BOOLEAN
  /\ config \in configs
  /\ granularEnabled = config.use_granular
  /\ currentProfile = IF config.use_granular THEN "computedProfile"
                                             ELSE getLegacyProfile(config)
  /\ computedProfile = IF config.use_granular THEN computeLayeredProfile(config, hasUSB)
                                              ELSE ZeroProfile
  /\ lastUSBStatus = hasUSB
  /\ pcU = "idle"
  /\ uLocal = [hasUSB |-> FALSE, newProfile |-> "nullptr"]
  /\ \E initialState \in States :
       \E wifi \in WifiReadings(ProfileAt(currentProfile, computedProfile)) :
         powerFSM = [state |-> initialState, initialized |-> FALSE,
                     built |-> [valid |-> TRUE, boot |-> initialState = "BOOT",
                                hasUSB |-> hasUSB,
                                profile |-> ProfileAt(currentProfile, computedProfile),
                                role |-> config.role, wifi |-> wifi],
                     elapsed |-> 0]
  /\ dev \in [screen : {FALSE}, bt : BOOLEAN, power : {"run"}]
  /\ secsSlept = 0
  /\ powerFSMLock = IF build.rtos THEN "loop" ELSE "free"
  /\ preservedState = "nullptr"
  /\ fsmRecreationPending = FALSE
  /\ fsmInitialSetupComplete = FALSE
  /\ pcL = "create_run"
  /\ caller = "setup"
  /\ sleeping = FALSE
  /\ pcE = NoRule
  /\ ble = NimbleBluetooth
  /\ lastTransition = NoRule

InitTable == InitTableWith(Builds, TableConfigs)

NextTable ==
  \/ PowerFSM_create_run
  \/ lsIdle_wake
  \/ PowerFSM_create_return
  \/ PowerFSM_setup_return
  \/ loop_run_machine
  \/ \E e \in Events : loop_trigger(e)
  \/ PowerProfileManager_updateActiveProfile
  \/ PowerChange
  \/ AdvanceTime

SpecTable == InitTable /\ [][NextTable]_vars

(***************************************************************************)
(* SpecTimed: as SpecTable, for every build variant that changes the timed *)
(* rules and for the roles that decide light-sleep eligibility.            *)
(***************************************************************************)
TimedConfigs ==
  {c \in Configs :
     /\ c.force_profile = "PROFILE_AUTO"
     /\ c.has_plugged_in_profile = c.has_battery_profile
     /\ c.role \in {"CLIENT", "TRACKER", "TAK_TRACKER"}
     /\ IF c.use_granular THEN ~c.is_power_saving ELSE ~c.has_battery_profile}

InitTimed == InitTableWith(AllBuilds, TimedConfigs)

SpecTimed == InitTimed /\ [][NextTable]_vars

(***************************************************************************)
(* SpecBle: the advertising control under any sequence of enable, disable, *)
(* connect and disconnect, while the power source and with it the active   *)
(* profile change.                                                         *)
(***************************************************************************)
InitBle == InitWith({Esp32Build}, TableConfigs)

NextBle ==
  \/ PowerProfileManager_init
  \/ PowerProfileManager_updateActiveProfile
  \/ PowerChange
  \/ \E enable \in BOOLEAN : setBluetoothEnable(enable)
  \/ onClientConnect
  \/ onClientDisconnect

SpecBle == InitBle /\ [][NextBle]_vars

TypeOK ==
  /\ powerFSM.state \in States
  /\ pcL \in {"boot", "create_lock", "create_build", "create_run", "create_return",
              "setup_return", "idle", "process_clear", "recreate", "recreate_return"}
  /\ pcU \in {"start", "idle", "layer2", "layer3", "compare"}
  /\ powerFSMLock \in {"free", "loop"}

(***************************************************************************)
(* Properties of the coordinator, the resolver and the machine.            *)
(***************************************************************************)

(* the loop context is inside PowerFSM_recreate *)
InRebuild ==
  \/ pcL \in {"create_lock", "create_build", "create_run", "create_return"}
       /\ caller = "recreate"
  \/ pcL = "recreate_return"

(* C1: the state that is current when a rebuild runs is the current state  *)
(* when the rebuild returns: the run_machine() that ends the rebuild       *)
(* leaves the preserved state in place.                                    *)
C1_RebuildPreservesState ==
  [][(pcL = "create_run" /\ caller = "recreate" /\ pcL' = "create_return")
       => powerFSM'.state = powerFSM.state]_vars

(* C2: after boot, an updateActiveProfile() that changes the resolved      *)
(* policy schedules a rebuild.                                             *)
C2_PolicyChangeSchedulesRebuild ==
  [][(fsmInitialSetupComplete /\ ActiveProfile' # ActiveProfile)
       => fsmRecreationPending']_vars

(* C3: a profile that stays published is never modified: a reader of       *)
(* getActiveProfile() sees the same fields until another profile is        *)
(* published.                                                              *)
C3_PublishedProfileImmutable ==
  [][(currentProfile # "nullptr" /\ currentProfile' = currentProfile)
       => ProfileAt(currentProfile, computedProfile')
            = ProfileAt(currentProfile, computedProfile)]_vars

(* C4: a rebuild never overlaps a trigger() in progress in another         *)
(* context.                                                                *)
C4_RebuildExcludesTrigger == ~(pcE # NoRule /\ InRebuild)

(* C5: a rebuild never waits for powerFSMLock while the loop context, which *)
(* runs the rebuild, already holds it.                                     *)
C5_RebuildNeverSelfBlocks == ~(pcL = "create_lock" /\ powerFSMLock = "loop")

(* C6: a step that schedules a rebuild (it publishes a profile or sets the *)
(* pending flag) leaves the live engine, its table and its current state   *)
(* unchanged; the table is replaced only by the build that                 *)
(* PowerFSM_processRecreation (or the initial setup) runs; and             *)
(* PowerFSM_processRecreation with the flag clear changes nothing.         *)
C6_ScheduleOnlySetsFlag ==
  [][/\ (currentProfile' # currentProfile
           \/ (fsmRecreationPending' /\ ~fsmRecreationPending))
          => UNCHANGED <<powerFSM, dev, secsSlept>>
     /\ powerFSM'.built # powerFSM.built
          => /\ pcL = "create_build"
             /\ caller = "recreate" \/ ~fsmInitialSetupComplete
     /\ (pcL = "idle" /\ pcL' # "idle") => fsmRecreationPending
    ]_vars

C6_Witness ==
  /\ fsmRecreationPending
  /\ pcL = "idle"
  /\ powerFSM.built.valid
  /\ powerFSM.built.hasUSB # hasUSB

(* C7: while an accepted rebuild request is pending, the loop context that *)
(* has to serve it can take its next step.                                 *)
C7_PendingRequestServed == (fsmRecreationPending /\ Alive) => ENABLED LoopNext

(* C8: until the initial setup has completed no rebuild is pending or      *)
(* running, a request made in that time is dropped, no preserved state     *)
(* exists and the machine of the first build is in BOOT.                   *)
C8_EarlyRequestDropped ==
  ~fsmInitialSetupComplete
    => /\ ~fsmRecreationPending
       /\ preservedState = "nullptr"
       /\ powerFSM.state = "BOOT"
       /\ pcL \notin {"process_clear", "recreate", "recreate_return"}

C8_Witness ==
  /\ ~fsmInitialSetupComplete
  /\ currentProfile # "nullptr"
  /\ powerFSM.built.valid
  /\ powerFSM.built.boot

C10_BootTimer ==
  [][(powerFSM.state = "BOOT"
        /\ powerFSM'.state \notin {"BOOT", "LOW_BATT_SDS", "SHUTDOWN"})
       => /\ powerFSM.built.valid /\ powerFSM.built.boot
          /\ powerFSM.elapsed >= BootTimeoutSecs
          /\ lastTransition'.event = "TIMEOUT"
          /\ powerFSM'.state = IF powerFSM.built.hasUSB THEN "POWER" ELSE "ON"]_vars

C10_Witness ==
  /\ lastTransition.from = "BOOT"
  /\ lastTransition.event = "TIMEOUT"
  /\ powerFSM.state = "POWER"
  /\ powerFSM.built.hasUSB

(* C11: a rebuild does not add the BOOT timed rule again and, when it runs *)
(* while the machine is in BOOT, does not restart the time already spent   *)
(* towards the 3 second deadline.                                          *)
C11_RebuildKeepsBootDeadline ==
  [][(pcL = "create_build" /\ caller = "recreate" /\ pcL' = "create_run")
       => /\ ~powerFSM'.built.boot
          /\ powerFSM.state = "BOOT" => powerFSM'.elapsed >= powerFSM.elapsed]_vars

(* the first run_machine() of an engine constructed in state s: it runs    *)
(* the entry action of s                                                   *)
EntersInitialState(s) ==
  ~powerFSM.initialized /\ powerFSM'.initialized /\ powerFSM.state = s

(* the states for which LOW_BATTERY and SHUTDOWN rules are registered *)
SafetySources == {"BOOT", "LS", "NB", "DARK", "ON", "SERIAL"}

(* C12: when SDS is entered, the non-forced deep-sleep call is made if and *)
(* only if the active profile has allow_deep_sleep; with it false the      *)
(* entry action returns with the device running; and no other step makes   *)
(* the non-forced deep-sleep call.                                         *)
C12_SdsEntryGate ==
  [][/\ EntersInitialState("SDS")
          => (dev'.power = "deep_sleep") = ActiveProfile.allow_deep_sleep
     /\ EntersInitialState("SDS") /\ ~ActiveProfile.allow_deep_sleep
          => dev'.power = "run"
     /\ dev'.power = "deep_sleep" /\ dev.power # "deep_sleep"
          => ActiveProfile.allow_deep_sleep /\ powerFSM'.state = "SDS"]_vars

C12_Witness ==
  /\ powerFSM.state = "SDS"
  /\ powerFSM.initialized
  /\ ~ActiveProfile.allow_deep_sleep
  /\ ~powerFSM.built.profile.allow_deep_sleep
  /\ dev.power = "run"

C14_LowBatteryForcesDeepSleep ==
  [][/\ powerFSM.state \in SafetySources
          => Lookup(powerFSM.built, powerFSM.state, "LOW_BATTERY").to = "LOW_BATT_SDS"
     /\ lastTransition'.event = "LOW_BATTERY"
          => /\ lastTransition'.from \in SafetySources
             /\ powerFSM'.state = "LOW_BATT_SDS"
             /\ dev'.power = "forced_deep_sleep"]_vars

C14_Witness ==
  /\ lastTransition.event = "LOW_BATTERY"
  /\ lastTransition.from = "ON"
  /\ powerFSM.state = "LOW_BATT_SDS"
  /\ dev.power = "forced_deep_sleep"
  /\ ~ActiveProfile.allow_deep_sleep

(* C15: in each of BOOT, LS, NB, DARK, ON, SERIAL the rule for SHUTDOWN    *)
(* leads to SHUTDOWN, a dispatch of SHUTDOWN ends in SHUTDOWN with the     *)
(* power-off action run, and SHUTDOWN has no rule and no timed rule out of *)
(* it: once current it stays current.                                      *)
C15_ShutdownIsTerminal ==
  [][/\ powerFSM.state \in SafetySources
          => Lookup(powerFSM.built, powerFSM.state, "SHUTDOWN").to = "SHUTDOWN"
     /\ lastTransition'.event = "SHUTDOWN"
          => /\ lastTransition'.from \in SafetySources
             /\ powerFSM'.state = "SHUTDOWN"
             /\ dev'.power = "off"
     /\ LET ts == Transitions(powerFSM.built)
            tts == TimedTransitions(powerFSM.built)
        IN /\ \A i \in DOMAIN ts : ts[i].from # "SHUTDOWN"
           /\ \A i \in DOMAIN tts : tts[i].from # "SHUTDOWN"
     /\ powerFSM.state = "SHUTDOWN" => powerFSM'.state = "SHUTDOWN"]_vars

C15_Witness ==
  /\ lastTransition.event = "SHUTDOWN"
  /\ lastTransition.from = "SERIAL"
  /\ powerFSM.state = "SHUTDOWN"
  /\ dev.power = "off"

C17_NbPacketGoesDark ==
  [][/\ powerFSM.state = "NB"
          => Lookup(powerFSM.built, "NB", "PACKET_FOR_PHONE")
               = T("NB", "DARK", "PACKET_FOR_PHONE", "none")
     /\ (lastTransition'.from = "NB" /\ lastTransition'.event = "PACKET_FOR_PHONE")
          => lastTransition'.to = "DARK" /\ powerFSM'.state = "DARK"]_vars

C17_Witness ==
  /\ lastTransition = T("NB", "DARK", "PACKET_FOR_PHONE", "none")
  /\ powerFSM.state = "DARK"

(* C18: a PRESS transition is LS to ON, NB to ON, DARK to POWER if hasUSB  *)
(* was true at build time and to ON otherwise, or a self-loop with the     *)
(* screen-press action in POWER, ON or SERIAL; PRESS has a rule in exactly *)
(* these six states.                                                       *)
C18_PressRules ==
  [][/\ lastTransition'.event = "PRESS"
          => LET r == lastTransition'
             IN /\ powerFSM'.state = r.to
                /\ CASE r.from \in {"LS", "NB"} -> r.to = "ON" /\ r.action = "none"
                     [] r.from = "DARK" ->
                          /\ r.to = IF powerFSM.built.hasUSB THEN "POWER" ELSE "ON"
                          /\ r.action = "none"
                     [] r.from \in {"POWER", "ON", "SERIAL"} ->
                          r.to = r.from /\ r.action = "screenPress"
                     [] OTHER -> FALSE
     /\ (Lookup(powerFSM.built, powerFSM.state, "PRESS") # NoRule)
          = (powerFSM.state \in {"LS", "NB", "DARK", "POWER", "ON", "SERIAL"})]_vars

C18_Witness ==
  /\ lastTransition = T("DARK", "POWER", "PRESS", "none")
  /\ powerFSM.state = "POWER"
  /\ powerFSM.built.hasUSB

(* C19: SERIAL_CONNECTED has a rule to SERIAL in LS, NB, DARK, ON and      *)
(* POWER and its dispatch ends in SERIAL with advertising disabled;        *)
(* SERIAL_DISCONNECTED leads from SERIAL to ON with advertising enabled;   *)
(* the PRESS self-loop of SERIAL ends with advertising disabled; and       *)
(* advertising is disabled whenever SERIAL has been entered and is current. *)
C19_SerialAdvertising ==
  [][/\ powerFSM.state \in {"LS", "NB", "DARK", "ON", "POWER"}
          => Lookup(powerFSM.built, powerFSM.state, "SERIAL_CONNECTED").to = "SERIAL"
     /\ lastTransition'.event = "SERIAL_CONNECTED"
          => powerFSM'.state = "SERIAL" /\ ~dev'.bt
     /\ powerFSM.state = "SERIAL"
          => Lookup(powerFSM.built, "SERIAL", "SERIAL_DISCONNECTED").to = "ON"
     /\ lastTransition'.event = "SERIAL_DISCONNECTED"
          => lastTransition'.from = "SERIAL" /\ powerFSM'.state = "ON" /\ dev'.bt
     /\ (lastTransition'.event = "PRESS" /\ lastTransition'.from = "SERIAL")
          => powerFSM'.state = "SERIAL" /\ ~dev'.bt
     /\ (powerFSM.state = "SERIAL" /\ powerFSM.initialized) => ~dev.bt]_vars

C19_Witness ==
  /\ lastTransition = T("SERIAL", "SERIAL", "PRESS", "screenPress")
  /\ powerFSM.state = "SERIAL"
  /\ ~dev.bt

(* C20: a RECEIVED_MSG or NODEDB_UPDATED transition out of NB or DARK, and *)
(* a RECEIVED_MSG transition out of LS, leads to ON if the table was built *)
(* from a profile with screenStaysResponsive and is a self-loop otherwise; *)
(* in ON both events are self-loops that restart the screen timer; the     *)
(* events have rules in NB, DARK and ON (and RECEIVED_MSG in LS) only.     *)
C20_MessageRules ==
  [][/\ lastTransition'.event \in {"RECEIVED_MSG", "NODEDB_UPDATED"}
          => LET r == lastTransition'
                 responsive == powerFSM.built.profile.screen_stays_responsive
             IN /\ powerFSM'.state = r.to
                /\ CASE r.from \in {"NB", "DARK"} ->
                          r.to = IF responsive THEN "ON" ELSE r.from
                     [] r.from = "LS" ->
                          /\ r.event = "RECEIVED_MSG"
                          /\ r.to = IF responsive THEN "ON" ELSE "LS"
                     [] r.from = "ON" -> r.to = "ON" /\ powerFSM'.elapsed = 0
                     [] OTHER -> FALSE
     /\ powerFSM.state \in {"NB", "DARK", "ON"}
          => /\ Lookup(powerFSM.built, powerFSM.state, "RECEIVED_MSG") # NoRule
             /\ Lookup(powerFSM.built, powerFSM.state, "NODEDB_UPDATED") # NoRule
     /\ powerFSM.state = "LS"
          => Lookup(powerFSM.built, "LS", "RECEIVED_MSG") # NoRule]_vars

C20_Witness ==
  /\ lastTransition = T("DARK", "DARK", "NODEDB_UPDATED", "none")
  /\ ~powerFSM.built.profile.screen_stays_responsive
  /\ powerFSM.state = "DARK"

(* the light-sleep conditions PowerFSM_create read when it built the table *)
LightSleepEligible(b) ==
  /\ b.profile.allow_light_sleep
  /\ ~b.wifi
  /\ b.role \notin {"TRACKER", "TAK_TRACKER", "SENSOR"}
  /\ build.esp32

(* the timed rules of a table as a set *)
TimedRuleSet(b) == {TimedTransitions(b)[i] : i \in DOMAIN TimedTransitions(b)}

(* the timed rules into LS are NB to LS after the minimum wake time and    *)
(* DARK to LS after the bluetooth timeout, present exactly when light      *)
(* sleep was eligible; otherwise the table has the DARK self-loop after    *)
(* the screen timeout                                                      *)
LightSleepTable ==
  LET b == powerFSM.built
      intoLS == {r \in TimedRuleSet(b) : r.to = "LS"}
  IN b.valid =>
       IF LightSleepEligible(b)
         THEN intoLS = {TT("NB", "LS", getMinWakeSecs(b.profile)),
                        TT("DARK", "LS", getBluetoothTimeoutSecs(b.profile))}
         ELSE /\ intoLS = {}
              /\ TT("DARK", "DARK", getScreenTimeoutSecs(b.profile)) \in TimedRuleSet(b)

(* C21: the timed rules into LS exist exactly when light sleep was         *)
(* eligible at build time (allowLightSleep(), no WiFi connection, a role   *)
(* other than TRACKER, TAK_TRACKER and SENSOR, a platform with light       *)
(* sleep); otherwise the table has the DARK self-loop and no transition    *)
(* enters LS.                                                              *)
C21_LightSleepRules ==
  [][/\ LightSleepTable
     /\ (lastTransition'.to = "LS" /\ lastTransition'.from # "LS")
          => LightSleepEligible(powerFSM.built)]_vars

(* C22: ON and POWER each have a timed rule to DARK with the effective     *)
(* screen timeout, due exactly once the state has been held that long, and *)
(* a TIMEOUT transition out of them leads to DARK after that time; the two *)
(* rules are registered exactly when the build is not an e-ink build (a    *)
(* screen that is not time-shared) and the effective timeout is above 0.   *)
C22_ScreenTimeout ==
  [][LET b == powerFSM.built
         secs == getScreenTimeoutSecs(b.profile)
         registered == {r \in TimedRuleSet(b) : r.from \in {"ON", "POWER"}}
     IN /\ b.valid =>
             registered = IF ~build.eink /\ secs > 0
                            THEN {TT("ON", "DARK", secs), TT("POWER", "DARK", secs)}
                            ELSE {}
        /\ (b.valid /\ registered # {} /\ powerFSM.state \in {"ON", "POWER"})
             => ((DueTimed(Mach) # {}) = (powerFSM.elapsed >= secs))
        /\ (lastTransition'.event = "TIMEOUT" /\ lastTransition'.from \in {"ON", "POWER"})
             => /\ lastTransition'.to = "DARK"
                /\ powerFSM'.state = "DARK"
                /\ secs > 0]_vars

(* C23: in DARK, CONTACT_FROM_PHONE has the self-loop rule; its dispatch   *)
(* keeps DARK and restarts the time DARK has been held, which every timed  *)
(* rule out of DARK counts from; the timed transition DARK to LS is made   *)
(* only when DARK was held for the bluetooth timeout since the last entry, *)
(* so it is not made while the contacts come at shorter intervals.         *)
C23_ContactRestartsDarkTimers ==
  [][/\ powerFSM.state = "DARK"
          => Lookup(powerFSM.built, "DARK", "CONTACT_FROM_PHONE")
               = T("DARK", "DARK", "CONTACT_FROM_PHONE", "none")
     /\ (powerFSM.state = "DARK" /\ Alive /\ loop_trigger("CONTACT_FROM_PHONE"))
          => /\ lastTransition' = T("DARK", "DARK", "CONTACT_FROM_PHONE", "none")
             /\ powerFSM'.state = "DARK"
             /\ powerFSM'.elapsed = 0
             /\ DueTimed(Mach') = {}
     /\ lastTransition'.event = "CONTACT_FROM_PHONE"
          => lastTransition'.from = "DARK" /\ powerFSM'.state = "DARK"
     /\ lastTransition' = T("DARK", "LS", "TIMEOUT", "none")
          => powerFSM.elapsed >= getBluetoothTimeoutSecs(powerFSM.built.profile)]_vars

C23_Witness ==
  /\ lastTransition = T("DARK", "DARK", "CONTACT_FROM_PHONE", "none")
  /\ powerFSM.state = "DARK"
  /\ powerFSM.elapsed = 0
  /\ TT("DARK", "LS", getBluetoothTimeoutSecs(powerFSM.built.profile))
       \in TimedRuleSet(powerFSM.built)

(* C24: a trigger of an event for which the table has no rule in the      *)
(* current state changes nothing: the state, the time it has been held     *)
(* (the timed deadlines), the device effects of the hooks and secsSlept    *)
(* stay as they are and no transition is made.  LOW_BATTERY in POWER is    *)
(* such a pair in every table.                                             *)
C24_UnregisteredIgnored ==
  [][(/\ pcL = "idle" /\ ~sleeping /\ Alive
      /\ (powerFSM' # powerFSM \/ dev' # dev \/ secsSlept' # secsSlept
            \/ lastTransition' # NoRule))
       => LET ts == Transitions(powerFSM.built)
              registered == {ts[i].event : i \in {j \in DOMAIN ts :
                                                   ts[j].from = powerFSM.state}}
          IN /\ \A e \in Events \ registered : ~loop_trigger(e)
             /\ powerFSM.state = "POWER" => ~loop_trigger("LOW_BATTERY")]_vars

C24_Witness ==
  /\ powerFSM.state = "POWER" /\ powerFSM.initialized /\ powerFSM.elapsed > 0
  /\ Lookup(powerFSM.built, "POWER", "LOW_BATTERY") = NoRule
  /\ pcL = "idle" /\ ~sleeping /\ Alive
  /\ lastTransition = NoRule

C26_LegacyResolve ==
  [][(pcU = "idle" /\ pcU' = "compare" /\ ~granularEnabled /\ selectActiveProfile)
       => /\ (uLocal'.newProfile = "legacyPowerSavingProfile")
               = (config.role = "ROUTER" \/ config.is_power_saving)
          /\ (uLocal'.newProfile = "legacyNormalProfile")
               = ~(config.role = "ROUTER" \/ config.is_power_saving)
          /\ ProfileAt(uLocal'.newProfile, computedProfile')
               = IF config.role = "ROUTER" \/ config.is_power_saving
                   THEN legacyPowerSavingProfile ELSE legacyNormalProfile]_vars

C26_Witness ==
  /\ pcU = "compare" /\ ~granularEnabled
  /\ uLocal.newProfile = "legacyPowerSavingProfile"
  /\ config.role = "ROUTER" /\ ~config.is_power_saving
  /\ hasUSB
  /\ config.force_profile = "PROFILE_ALWAYS_BATTERY"
  /\ config.has_plugged_in_profile

(* a call of init() or updateActiveProfile() that resolves in granular mode *)
GranularResolve ==
  /\ PowerProfileManager_init \/ PowerProfileManager_updateActiveProfile
  /\ granularEnabled'

(* config.power has a user profile for the current power source *)
HasUserOverride == IF hasUSB THEN config.has_plugged_in_profile
                             ELSE config.has_battery_profile

(* C27: in granular mode without a user profile for the current power      *)
(* source the resolved profile is the plugged or battery default (by the   *)
(* forced-profile setting, by hasUSB if AUTO) with the fields the role     *)
(* sets: ROUTER no deep and no light sleep, min_wake_secs 1, ceiling       *)
(* MAX_DARK; TRACKER screen_timeout_secs 10, gps on; SENSOR bluetooth off, *)
(* screen not responsive, screen_timeout_secs 5; CLIENT_MUTE screen not    *)
(* responsive; CLIENT nothing.                                             *)
C27_GranularRoleModifiers ==
  [][(GranularResolve /\ ~HasUserOverride)
       => LET base == IF config.force_profile = "PROFILE_ALWAYS_PLUGGED"
                         \/ (config.force_profile = "PROFILE_AUTO" /\ hasUSB)
                        THEN systemDefaultPluggedProfile
                        ELSE systemDefaultBatteryProfile
              resolved == ProfileAt(currentProfile', computedProfile')
          IN /\ currentProfile' = "computedProfile"
             /\ config.role = "ROUTER"
                  => resolved = [base EXCEPT !.allow_deep_sleep = FALSE,
                                             !.allow_light_sleep = FALSE,
                                             !.min_wake_secs = 1,
                                             !.max_power_state = MAX_DARK]
             /\ config.role = "TRACKER"
                  => resolved = [base EXCEPT !.screen_timeout_secs = 10,
                                             !.gps_enabled = TRUE]
             /\ config.role = "SENSOR"
                  => resolved = [base EXCEPT !.bluetooth_enabled = FALSE,
                                             !.screen_stays_responsive = FALSE,
                                             !.screen_timeout_secs = 5]
             /\ config.role = "CLIENT_MUTE"
                  => resolved = [base EXCEPT !.screen_stays_responsive = FALSE]
             /\ config.role = "CLIENT" => resolved = base]_vars

C27_Witness ==
  /\ pcU = "idle" /\ granularEnabled /\ currentProfile = "computedProfile"
  /\ config.role = "SENSOR" /\ ~hasUSB /\ ~config.has_battery_profile
  /\ config.has_plugged_in_profile
  /\ computedProfile = [systemDefaultBatteryProfile EXCEPT
                          !.bluetooth_enabled = FALSE,
                          !.screen_stays_responsive = FALSE,
                          !.screen_timeout_secs = 5]

(* C28: in granular mode with a user profile for the current power source  *)
(* (the plugged-in profile while hasUSB, the battery profile otherwise)    *)
(* the resolved profile is that user profile in every field; a user        *)
(* profile for the other power source changes nothing.                     *)
C28_UserOverrideWholesale ==
  [][GranularResolve
       => LET resolved == ProfileAt(currentProfile', computedProfile')
              other == [config EXCEPT !.has_plugged_in_profile = hasUSB /\ @,
                                      !.has_battery_profile = ~hasUSB /\ @]
          IN /\ (hasUSB /\ config.has_plugged_in_profile) => resolved = plugged_in_profile
             /\ (~hasUSB /\ config.has_battery_profile) => resolved = battery_profile
             /\ resolved = computeLayeredProfile(other, hasUSB)]_vars

C28_Witness ==
  /\ pcU = "idle" /\ granularEnabled /\ currentProfile = "computedProfile"
  /\ config.role = "ROUTER" /\ hasUSB /\ config.has_plugged_in_profile
  /\ computedProfile = plugged_in_profile
  /\ computedProfile.allow_light_sleep

(* C29: getActiveProfile() never returns null: while nothing is published  *)
(* it returns the static legacy normal profile, afterwards the published   *)
(* pointer; and forceProfile(nullptr) leaves the published pointer as it   *)
(* is.                                                                     *)
C29_ActiveProfileNeverNull ==
  [][/\ getActiveProfile # "nullptr"
     /\ getActiveProfile' # "nullptr"
     /\ currentProfile = "nullptr"
          => /\ getActiveProfile = "legacyNormalProfile"
             /\ ActiveProfile = legacyNormalProfile
     /\ currentProfile # "nullptr" => getActiveProfile = currentProfile
     /\ PowerProfileManager_forceProfile("nullptr") => currentProfile' = currentProfile]_vars

C29_Witness ==
  /\ pcU = "start"
  /\ currentProfile = "nullptr"
  /\ getActiveProfile = "legacyNormalProfile"
  /\ config.use_granular /\ config.role = "ROUTER"

(* the values of the MaxPowerState enumeration, deepest first *)
MaxPowerStates == {MAX_SDS, MAX_LS, MAX_NO_BLUETOOTH, MAX_DARK, MAX_ON}

DepthOf(s) ==
  CASE s = "SDS" -> MAX_SDS
    [] s = "LS" -> MAX_LS
    [] s = "NB" -> MAX_NO_BLUETOOTH
    [] s = "DARK" -> MAX_DARK
    [] OTHER -> MAX_ON

(* C31: apart from the LOW_BATTERY and SHUTDOWN rules, no transition       *)
(* enters LS, NB, DARK or SDS unless isPowerStateAllowed() holds for that  *)
(* state under the profile the table was built from.                       *)
C31_CeilingVetoesEntry ==
  [][(/\ lastTransition'.to \in {"LS", "NB", "DARK", "SDS"}
      /\ lastTransition'.event \notin {"LOW_BATTERY", "SHUTDOWN"})
       => isPowerStateAllowed(powerFSM.built.profile, DepthOf(lastTransition'.to))]_vars

(* the number of radio calls named k among the calls cs *)
Issued(cs, k) == Len(SelectSeq(cs, LAMBDA c : c = k))

(* setBluetoothEnable(enable) called on b, as a call of its own *)
Toggled(b, enable) == bluetoothEnable([b EXCEPT !.calls = <<>>], enable)

(* C32: from every state of the controller two consecutive enables issue   *)
(* one start-advertising radio call between them (none if it advertises    *)
(* already) and the second of them issues none; two consecutive disables   *)
(* issue one stop-advertising call (none if advertising is stopped) and    *)
(* the second issues none; a disable leaves an established connection.     *)
C32_AdvertisingIdempotent ==
  LET en1 == Toggled(ble, TRUE)
      en2 == Toggled(en1, TRUE)
      dis1 == Toggled(ble, FALSE)
      dis2 == Toggled(dis1, FALSE)
  IN /\ Issued(en1.calls \o en2.calls, "startAdvertising")
          = (IF ble.advertisingActive THEN 0 ELSE 1)
     /\ en2.calls = <<>> /\ en2.advertisingActive
     /\ Issued(dis1.calls \o dis2.calls, "stopAdvertising")
          = (IF ble.advertisingActive THEN 1 ELSE 0)
     /\ dis2.calls = <<>> /\ ~dis2.advertisingActive
     /\ dis1.connected = ble.connected /\ dis2.connected = ble.connected
     /\ dis2.setups = ble.setups

(* a disable has stopped advertising while a client stays connected *)
C32_Witness ==
  /\ ble.op = "disable" /\ ble.calls = <<"stopAdvertising">>
  /\ ble.connected /\ ble.setups = 1

(* C33: the disconnect callback leaves advertising enabled if the profile  *)
(* active at the disconnect has bluetooth_enabled, and otherwise issues no *)
(* radio call and leaves advertising as it was: stopped advertising stays  *)
(* stopped, whatever profile was active when it was last toggled.          *)
C33_DisconnectFollowsCurrentProfile ==
  [][(ble.connected /\ ~ble'.connected)
       => /\ ble'.op = "disconnect"
          /\ IF ActiveProfile.bluetooth_enabled
               THEN /\ ble'.advertisingActive
                    /\ ble'.calls = (IF ble.advertisingActive THEN <<>>
                                                              ELSE <<"startAdvertising">>)
               ELSE /\ ble'.advertisingActive = ble.advertisingActive
                    /\ ble'.calls = <<>>]_vars

(* a client has disconnected under a profile without Bluetooth, after      *)
(* advertising was stopped: advertising is still stopped                   *)
C33_Witness ==
  /\ ble.op = "disconnect" /\ ~ble.connected
  /\ ~ble.advertisingActive /\ ble.setups = 1
  /\ ~ActiveProfile.bluetooth_enabled
  /\ currentProfile # "nullptr" /\ ~hasUSB

(* C34: the radio stack and the service are initialised at most once: the  *)
(* first enable initialises them, and once they are initialised no enable, *)
(* disable or disconnect initialises them again.                           *)
C34_SetupAtMostOnce ==
  /\ ble.setups <= 1
  /\ Issued(ble.calls, "setup") <= (IF ble.op = "enable" THEN 1 ELSE 0)
  /\ (ble.setups = 0) => (~ble.advertisingActive /\ ~ble.connected)
  /\ Toggled(ble, TRUE).setups = 1
  /\ Issued(Toggled(ble, TRUE).calls, "setup") = 1 - ble.setups
  /\ Toggled(ble, FALSE).setups = ble.setups

(* after the stack was set up, a disconnect has restarted advertising      *)
(* without setting it up again                                             *)
C34_Witness ==
  /\ ble.setups = 1
  /\ ble.op = "disconnect" /\ ble.calls = <<"startAdvertising">>

(* C35: no rule and no timed rule of a table built by PowerFSM_create      *)
(* leads to SDS; starting from BOOT the current state is never SDS and the *)
(* non-forced deep sleep of sdsEnter never happens.                        *)
C35_SdsUnreachable ==
  /\ powerFSM.state # "SDS"
  /\ dev.power # "deep_sleep"
  /\ \A i \in DOMAIN Transitions(powerFSM.built) :
       Transitions(powerFSM.built)[i].to # "SDS"
  /\ \A i \in DOMAIN TimedTransitions(powerFSM.built) :
       TimedTransitions(powerFSM.built)[i].to # "SDS"

(* the machine has gone as deep as LS under a profile that allows deep     *)
(* sleep                                                                   *)
C35_Witness ==
  /\ powerFSM.initialized /\ powerFSM.state = "LS"
  /\ powerFSM.built.valid /\ powerFSM.built.profile.allow_deep_sleep
  /\ ActiveProfile.allow_deep_sleep
  /\ dev.power = "run"

(* C36: in POWER the table has no rule for LOW_BATTERY and none for        *)
(* SHUTDOWN, a trigger of either leaves the machine as it is, and no step  *)
(* taken in POWER ends in LOW_BATT_SDS or SHUTDOWN or with the device in   *)
(* deep sleep or off.                                                      *)
C36_PowerIgnoresSafetyEvents ==
  [][powerFSM.state = "POWER"
       => /\ \A e \in {"LOW_BATTERY", "SHUTDOWN"} :
               /\ Lookup(powerFSM.built, "POWER", e) = NoRule
               /\ trigger(Mach, e, ActiveProfile) = Mach
          /\ powerFSM'.state \notin {"LOW_BATT_SDS", "SHUTDOWN"}
          /\ dev'.power = dev.power]_vars

(* the machine has entered POWER by a transition and rests there *)
C36_Witness ==
  /\ powerFSM.state = "POWER" /\ powerFSM.initialized
  /\ lastTransition.to = "POWER"
  /\ Lookup(powerFSM.built, "POWER", "SHUTDOWN") = NoRule
  /\ dev.power = "run" /\ pcL = "idle"

(* the run_machine() that ends a rebuild *)
RebuildRuns == pcL = "create_run" /\ caller = "recreate" /\ pcL' = "create_return"

(* C37: the run_machine() that ends a rebuild enters the preserved state   *)
(* anew: the time the state has been held starts at 0 again and no timed   *)
(* rule fires in it, so the screen timeout of ON is measured from the      *)
(* rebuild; a machine still in ON has the screen and advertising on again, *)
(* and a rebuild in NB or DARK leaves advertising equal to the active      *)
(* profile's bluetooth_enabled.                                            *)
C37_RebuildRestartsTimers ==
  [][RebuildRuns
       => /\ powerFSM'.initialized /\ powerFSM'.elapsed = 0
          /\ lastTransition'.event # "TIMEOUT"
          /\ powerFSM'.elapsed < Deadline(powerFSM') \/ Deadline(powerFSM') = 0
          /\ (powerFSM.state = "ON" /\ powerFSM'.state = "ON")
               => dev'.screen /\ dev'.bt
          /\ powerFSM.state = "ON" => powerFSM'.state # "DARK"
          /\ powerFSM.state \in {"NB", "DARK"}
               => /\ powerFSM'.state = powerFSM.state
                  /\ dev'.bt = ActiveProfile.bluetooth_enabled
                  /\ ~dev'.screen]_vars

(* a rebuild in DARK has ended under a profile without Bluetooth: the time *)
(* in DARK starts again and advertising is off                             *)
C37_Witness ==
  /\ pcL = "create_return" /\ caller = "recreate"
  /\ powerFSM.state = "DARK" /\ powerFSM.initialized /\ powerFSM.elapsed = 0
  /\ ~ActiveProfile.bluetooth_enabled /\ ~dev.bt

(* C38: a run_machine() that starts in POWER without external power       *)
(* fires POWER_DISCONNECTED and ends in ON, and one that starts in ON with *)
(* external power fires POWER_CONNECTED and ends in POWER: neither         *)
(* mismatch outlasts a tick.                                               *)
C38_IdleHooksFollowPowerSource ==
  [][(/\ powerFSM.state \in {"ON", "POWER"}
      /\ (powerFSM.state = "ON") = hasUSB
      /\ (loop_run_machine \/ PowerFSM_create_run))
       => /\ lastTransition' = T(powerFSM.state, IF hasUSB THEN "POWER" ELSE "ON",
                                 IF hasUSB THEN "POWER_CONNECTED" ELSE "POWER_DISCONNECTED",
                                 "none")
          /\ powerFSM'.state = (IF hasUSB THEN "POWER" ELSE "ON")
          /\ powerFSM'.elapsed = 0
          /\ dev'.screen /\ dev'.bt]_vars

(* external power was lost in POWER and the next tick has moved the        *)
(* machine to ON                                                           *)
C38_Witness ==
  /\ powerFSM.state = "ON" /\ ~hasUSB /\ powerFSM.initialized
  /\ lastTransition = T("POWER", "ON", "POWER_DISCONNECTED", "none")
  /\ powerFSM.built.hasUSB
  /\ pcL = "idle"

(* doLightSleep returns inside lsIdle *)
LsWakes == sleeping /\ ~sleeping'

(* the sleep ended by timer: SLEEP_TIME more on the counter, no event *)
LsTimerWake ==
  /\ secsSlept' = secsSlept + SLEEP_TIME
  /\ powerFSM'.state = "LS"
  /\ lastTransition' = NoRule

(* the wake fired event e, which moved the machine from LS to state s *)
LsWakeFires(e, s) ==
  /\ lastTransition' = T("LS", s, e, "none")
  /\ powerFSM'.state = s
  /\ secsSlept' = secsSlept

(* what C39 says of every step of the LS idle hook but the wake itself: a  *)
(* sleep is entered only in LS on ESP32 with the counter below ls_secs;    *)
(* the counter is 0 after every entry into LS; on ESP32 it grows by        *)
(* SLEEP_TIME at a time and a tick in LS with the counter at ls_secs or    *)
(* above fires WAKE_TIMER, which leads to the wake target.                 *)
LsIdleCounts ==
  /\ sleeping => (powerFSM.state = "LS" /\ build.esp32 /\ secsSlept < LsSecs)
  /\ (lastTransition'.to = "LS" \/ EntersInitialState("LS")) => secsSlept' = 0
  /\ (powerFSM.state = "LS" /\ build.esp32)
       => /\ secsSlept % SLEEP_TIME = 0
          /\ secsSlept < LsSecs + SLEEP_TIME
  /\ (/\ powerFSM.state = "LS" /\ build.esp32 /\ powerFSM.initialized
      /\ secsSlept >= LsSecs
      /\ (loop_run_machine \/ PowerFSM_create_run))
       => LsWakeFires("WAKE_TIMER", wakeTarget(powerFSM.built))

C40_AdvertisingOnWhenAwake ==
  (powerFSM.state \in {"ON", "POWER"} /\ powerFSM.initialized) => dev.bt

(* a press handled in ON under a profile without Bluetooth: the machine is *)
(* still in ON and advertising is on                                       *)
C40_Witness ==
  /\ powerFSM.state = "ON" /\ powerFSM.initialized
  /\ lastTransition = T("ON", "ON", "PRESS", "screenPress")
  /\ ~ActiveProfile.bluetooth_enabled
  /\ ~powerFSM.built.profile.bluetooth_enabled
  /\ dev.bt

====
